---- MODULE Spec2Model ----
(***************************************************************************)
(* A model of sitegen (src/sitegen/website.go, the concurrent revision,   *)
(* lines 294-746): the front matter splitter, the metadata decoder, the   *)
(* crawl, the concurrent write phase with its ContentQueue, and copyFile. *)
(*                                                                         *)
(* Bytes are modelled as a sequence of chunks.  The chunks "-" and "\n"   *)
(* are the single bytes the delimiters are made of; every other chunk     *)
(* stands for a run of bytes holding no "\n---" (a key, a value, text).   *)
(***************************************************************************)
EXTENDS Integers, Sequences, FiniteSets, TLC

VARIABLES
    doc,        \* SplitSpec: the document handed to splitContent
    ntok,       \* SplitSpec: how many pieces the document was built from
    res,        \* SplitSpec: what splitContent returned, NoResult before the call
    src,        \* the source tree under content/: node -> [name, isDir, readable, data, parent]
    processor,  \* the registered MetadataProcessor: [set, fails]
    pc,         \* where Start is
    frames,     \* the readDir calls in progress, innermost first: [dir, rest]
    items,      \* the ContentItems made so far, by node
    parseError,
    processError,
    generateError,
    todo,       \* Process: the calls of Process still to make, next first
    calls,      \* Process: the nodes the processor was invoked on, in that order
    wtodo,      \* Write: the calls of Write still to make, next first
    queue,      \* ContentQueue.items: the nodes inserted, in order
    lock,       \* ContentQueue.lock: "free", or who holds it
    unit,       \* the goroutine of each node: "none", "ready", "storing", "done", "failed"
    stores,     \* the stores into generateError under way: node -> the nodes whose
                \* store ran at the same time
    result,     \* ContentQueueItem.Result: how many values each channel holds
    finished,   \* Wait's counter
    bar,        \* the progress bar: [total, current, done]
    outDirs,    \* the directories made under static/, by node
    outFiles,   \* the files written under static/, by node
    completed,  \* the nodes whose goroutine has sent on its channel, in that order
    fsys,       \* CopySpec: the file system: [link: path -> inode or 0, inode: [kind, data]]
    canLink,    \* CopySpec: os.Link works between the two places (same device)
    writable,   \* CopySpec: files can be created and written
    last,       \* CopySpec: the last call of copyFile: [src, dst, err, how]
    tick,       \* CopySpec: flips at every call of copyFile
    seen        \* CopySpec: the ways a first call worked whose repeat has been made

splitVars == <<doc, ntok, res>>

writeVars == <<wtodo, queue, lock, unit, stores, result, finished, bar, outDirs, outFiles,
               completed>>

crawlVars == <<src, processor, pc, frames, items, parseError, processError, generateError,
               todo, calls, writeVars>>

copyVars == <<fsys, canLink, writable, last, tick, seen>>

vars == <<doc, ntok, res, src, processor, pc, frames, items, parseError, processError,
          generateError, todo, calls, wtodo, queue, lock, unit, stores, result, finished,
          bar, outDirs, outFiles, completed, fsys, canLink, writable, last, tick, seen>>

-----------------------------------------------------------------------------
(* Bounds *)

MaxTokens == 6

\* the most entries a source tree holds, the root directory included
MaxNodes == 3

-----------------------------------------------------------------------------
(* bytes helpers, as the Go standard library computes them *)

\* (a slip the claims must catch: the delimiter looked for anywhere)
HasPrefixAnywhere(s, prefix) ==
    \E i \in 0..(Len(s) - Len(prefix)) : SubSeq(s, i + 1, i + Len(prefix)) = prefix

\* bytes.HasPrefix
HasPrefix(s, prefix) ==
    /\ Len(s) >= Len(prefix)
    /\ SubSeq(s, 1, Len(prefix)) = prefix

\* bytes.Index: the 0-based index of the first occurrence of sep in s, or -1
Index(s, sep) ==
    LET hits == {i \in 0..(Len(s) - Len(sep)) : SubSeq(s, i + 1, i + Len(sep)) = sep}
    IN  IF hits = {} THEN -1
        ELSE CHOOSE i \in hits : \A j \in hits : i <= j

\* A Go slice expression s[lo:hi] panics unless 0 <= lo <= hi <= cap(s)
SliceInRange(s, lo, hi) == 0 <= lo /\ lo <= hi /\ hi <= Len(s)

\* s[lo:hi] with 0-based bounds, when in range
Slice(s, lo, hi) == SubSeq(s, lo + 1, hi)

-----------------------------------------------------------------------------
(* splitContent *)

startDelim == <<"-", "-", "-", "\n">>
endDelim == <<"\n", "-", "-", "-", "\n", "\n">>

\* A nil []byte and an empty one differ: parseContent tests frontMatter != nil
NilBytes == [nil |-> TRUE, bytes |-> <<>>]
Bytes(s) == [nil |-> FALSE, bytes |-> s]

ErrNoEndDelim == "No end delimiter found for metadata!"

\* The result is [outcome, frontMatter, body, err]; outcome "panic" is the
\* run-time panic "slice bounds out of range", which returns nothing.
splitContent(content) ==
    IF HasPrefix(content, startDelim)
    THEN LET endIndex == Index(content, endDelim) IN
         IF endIndex = -1
         THEN [outcome |-> "return", frontMatter |-> NilBytes, body |-> NilBytes,
               err |-> ErrNoEndDelim]
         ELSE IF ~SliceInRange(content, Len(startDelim), endIndex)
         THEN [outcome |-> "panic", frontMatter |-> NilBytes, body |-> NilBytes,
               err |-> "nil"]
         ELSE [outcome |-> "return",
               frontMatter |-> Bytes(Slice(content, Len(startDelim), endIndex)),
               body |-> Bytes(Slice(content, endIndex + Len(endDelim), Len(content))),
               err |-> "nil"]
    ELSE [outcome |-> "return", frontMatter |-> NilBytes, body |-> Bytes(content),
          err |-> "nil"]

-----------------------------------------------------------------------------
(* The metadata decoder: yaml.Unmarshal calling Metadata.UnmarshalYAML *)

RECURSIVE SplitLines(_)
\* the lines of a block: the runs of chunks between "\n" chunks
SplitLines(s) ==
    LET nl == Index(s, <<"\n">>) IN
    IF nl = -1 THEN <<s>>
    ELSE <<Slice(s, 0, nl)>> \o SplitLines(Slice(s, nl + 1, Len(s)))

KeyTitle == "title: "
KeyTemplate == "template: "
KeyDate == "date: "
KeyOther == "author: "
YamlKeys == {KeyTitle, KeyTemplate, KeyDate, KeyOther}

\* a line "key: value" (the value may be missing) is an entry of a mapping
IsEntry(line) ==
    /\ Len(line) \in {1, 2}
    /\ line[1] \in YamlKeys
    /\ Len(line) = 2 => line[2] \notin (YamlKeys \cup {"-"})

EntryValue(line) == IF Len(line) = 2 THEN line[2] ELSE ""

\* The YAML parser: [empty, err, keys, value].  A block of blank lines is an
\* empty document; a block whose lines are all entries is a mapping (a later
\* entry of the same key is not modelled: the documents hold each key once);
\* anything else does not decode into a struct.
yamlParse(block) ==
    LET lines == SplitLines(block)
        used == {i \in 1..Len(lines) : lines[i] # <<>>}
        keys == {lines[i][1] : i \in used}
    IN  IF used = {} THEN [empty |-> TRUE, err |-> "nil", keys |-> {}, value |-> <<>>]
        ELSE IF \E i \in used : ~IsEntry(lines[i])
        THEN [empty |-> FALSE, err |-> "yaml: cannot unmarshal", keys |-> {},
              value |-> <<>>]
        ELSE [empty |-> FALSE, err |-> "nil", keys |-> keys,
              value |-> [k \in keys |->
                  EntryValue(lines[CHOOSE i \in used : lines[i][1] = k])]]

\* unmarshal(md) into a zero metadataTime: fields by lower-cased name, unknown
\* keys ignored, absent keys left at the zero value ""
metadataTime(y) ==
    [Title |-> IF KeyTitle \in y.keys THEN y.value[KeyTitle] ELSE "",
     Template |-> IF KeyTemplate \in y.keys THEN y.value[KeyTemplate] ELSE "",
     Date |-> IF KeyDate \in y.keys THEN y.value[KeyDate] ELSE ""]

\* time.ParseInLocation("2006-01-02 15:04:05", value, loc): the values of the
\* model that have this layout
GoodTimestamp == "2014-05-01 10:00:00"
ValidTimestamps == {GoodTimestamp}

ZeroTime == [set |-> FALSE, at |-> ""]

ParseInLocation(value) ==
    IF value \in ValidTimestamps
    THEN [err |-> "nil", t |-> [set |-> TRUE, at |-> value]]
    ELSE [err |-> "parsing time: cannot parse", t |-> ZeroTime]

ZeroMetadata == [Title |-> "", Template |-> "", Date |-> ZeroTime]

\* Metadata.UnmarshalYAML on m, given the parsed block: [err, m]
UnmarshalYAML(m, y) ==
    IF y.err # "nil" THEN [err |-> y.err, m |-> m]
    ELSE LET md == metadataTime(y)
             p == ParseInLocation(md.Date)
         IN  IF p.err # "nil" THEN [err |-> p.err, m |-> m]
             ELSE [err |-> "nil",
                   m |-> [Title |-> md.Title, Template |-> md.Template, Date |-> p.t]]

\* yaml.Unmarshal(frontMatter, &c.Metadata): an empty document decodes nothing
\* and calls no Unmarshaler
yamlUnmarshal(block, m) ==
    LET y == yamlParse(block) IN
    IF y.empty THEN [err |-> "nil", m |-> m] ELSE UnmarshalYAML(m, y)

-----------------------------------------------------------------------------
(* parseContent *)

DefaultTemplate == "page"

\* strings.HasSuffix on a name given as a sequence of characters
HasSuffix(s, suffix) ==
    /\ Len(s) >= Len(suffix)
    /\ SubSeq(s, Len(s) - Len(suffix) + 1, Len(s)) = suffix

ExtHtml == <<".", "h", "t", "m", "l">>
ExtMd == <<".", "m", "d">>

\* RenderMarkdown turns the body into HTML; the converter is not modelled, its
\* output is kept apart from the bytes it was given
RenderMarkdown(body) == [markdown |-> TRUE, of |-> body]
RawHTML(body) == [markdown |-> FALSE, of |-> body]
NoContent == RawHTML(<<>>)

\* A file of the source tree: [readable, data]
\* The result: [outcome, err, decodeErr, Metadata, Content]; decodeErr is the
\* value yaml.Unmarshal returned, which parseContent drops.
parseContent(filename, file) ==
    IF ~file.readable
    THEN [outcome |-> "return", err |-> "open: permission denied", decodeErr |-> "nil",
          Metadata |-> ZeroMetadata, Content |-> NoContent]
    ELSE LET sp == splitContent(file.data) IN
    IF sp.outcome = "panic"
    THEN [outcome |-> "panic", err |-> "nil", decodeErr |-> "nil",
          Metadata |-> ZeroMetadata, Content |-> NoContent]
    ELSE IF sp.err # "nil"
    THEN [outcome |-> "return", err |-> sp.err, decodeErr |-> "nil",
          Metadata |-> ZeroMetadata, Content |-> NoContent]
    ELSE LET dec == IF ~sp.frontMatter.nil
                    THEN yamlUnmarshal(sp.frontMatter.bytes, ZeroMetadata)
                    ELSE [err |-> "nil", m |-> ZeroMetadata]
             md == IF dec.m.Template = ""
                   THEN [dec.m EXCEPT !.Template = DefaultTemplate]
                   ELSE dec.m
         IN  [outcome |-> "return", err |-> "nil", decodeErr |-> dec.err,
              Metadata |-> md,
              Content |-> IF HasSuffix(filename, ExtMd)
                          THEN RenderMarkdown(sp.body.bytes)
                          ELSE RawHTML(sp.body.bytes)]

-----------------------------------------------------------------------------
(* copyFile and copyFileContents, on a file system of paths and inodes *)

Paths == {"a", "b"}
Inodes == {1, 2, 3}
NoInode == 0

Regular == "regular"
Dir == "dir"
FreeInode == [kind |-> "free", data |-> ""]

ErrNotExist == "no such file or directory"
ErrNonRegularSrc == "copyFile: non-regular source file"
ErrNonRegularDst == "copyFile: non-regular destination file"
ErrExist == "file exists"
ErrXDev == "invalid cross-device link"
ErrPerm == "permission denied"

\* os.Stat: [err, ino, kind]
Stat(fs, p) ==
    IF fs.link[p] = NoInode THEN [err |-> ErrNotExist, ino |-> NoInode, kind |-> "free"]
    ELSE [err |-> "nil", ino |-> fs.link[p], kind |-> fs.inode[fs.link[p]].kind]

\* (a slip the claims must catch: two files are never taken for the same)
SameFileNever(sfi, dfi) == FALSE

\* os.SameFile: the same device and inode
SameFile(sfi, dfi) == sfi.ino = dfi.ino

\* os.Link(src, dst): [err, fs]
Link(fs, s, d, linkable) ==
    IF fs.link[d] # NoInode THEN [err |-> ErrExist, fs |-> fs]
    ELSE IF ~linkable THEN [err |-> ErrXDev, fs |-> fs]
    ELSE [err |-> "nil", fs |-> [fs EXCEPT !.link[d] = fs.link[s]]]

UnusedInode(fs) == CHOOSE i \in Inodes : \A p \in Paths : fs.link[p] # i

\* os.Create(dst): the file is made, or cut to nothing if it is there: [err, fs]
Create(fs, d, canWrite) ==
    IF ~canWrite THEN [err |-> ErrPerm, fs |-> fs]
    ELSE IF fs.link[d] = NoInode
    THEN LET i == UnusedInode(fs) IN
         [err |-> "nil",
          fs |-> [link |-> [fs.link EXCEPT ![d] = i],
                  inode |-> [fs.inode EXCEPT ![i] = [kind |-> Regular, data |-> ""]]]]
    ELSE [err |-> "nil", fs |-> [fs EXCEPT !.inode[fs.link[d]].data = ""]]

\* copyFileContents: Open, Create, io.Copy, Sync, Close: [err, fs]
copyFileContents(fs, s, d, canWrite) ==
    IF fs.link[s] = NoInode THEN [err |-> ErrNotExist, fs |-> fs]
    ELSE LET made == Create(fs, d, canWrite) IN
         IF made.err # "nil" THEN [err |-> made.err, fs |-> fs]
         ELSE [err |-> "nil",
               fs |-> [made.fs EXCEPT !.inode[made.fs.link[d]].data =
                                          made.fs.inode[made.fs.link[s]].data]]

\* copyFile: [err, fs, how]; how tells which way the call took: "same" (the
\* identical file, nothing done), "link", "copy", or "none" when it failed early
copyFile(fs, s, d, linkable, canWrite) ==
    LET sfi == Stat(fs, s)
        dfi == Stat(fs, d)
        linked == Link(fs, s, d, linkable)
        copied == copyFileContents(fs, s, d, canWrite)
    IN  IF sfi.err # "nil" THEN [err |-> sfi.err, fs |-> fs, how |-> "none"]
        ELSE IF sfi.kind # Regular THEN [err |-> ErrNonRegularSrc, fs |-> fs, how |-> "none"]
        ELSE IF dfi.err = "nil" /\ dfi.kind # Regular
        THEN [err |-> ErrNonRegularDst, fs |-> fs, how |-> "none"]
        ELSE IF dfi.err = "nil" /\ SameFile(sfi, dfi)
        THEN [err |-> "nil", fs |-> fs, how |-> "same"]
        ELSE IF linked.err = "nil" THEN [err |-> "nil", fs |-> linked.fs, how |-> "link"]
        ELSE [err |-> copied.err, fs |-> copied.fs, how |-> "copy"]

-----------------------------------------------------------------------------
(* The source tree and the ContentItem tree *)

Root == 1

NameDot == <<".">>
DirContent == <<"c", "o", "n", "t", "e", "n", "t">>

TypeContent == "Content"
TypeDirectory == "Directory"
TypeAsset == "Asset"

NoError == [node |-> 0, msg |-> "nil"]
Error(n, m) == [node |-> n, msg |-> m]

NoFile == [readable |-> FALSE, data |-> <<>>]

isContentFile(filename) == HasSuffix(filename, ExtHtml) \/ HasSuffix(filename, ExtMd)

\* strings.Join(parts[0:len(parts)-1], ".") + ".html" for parts the pieces of
\* filename between dots: the name up to its last dot, then ".html"
OutName(filename) ==
    LET dots == {i \in 1..Len(filename) : filename[i] = "."}
        lastDot == CHOOSE i \in dots : \A j \in dots : j <= i
    IN  SubSeq(filename, 1, lastDot - 1) \o ExtHtml

Nodes == DOMAIN src

RECURSIVE Ordered(_)
\* a set of nodes in listing order
Ordered(S) ==
    IF S = {} THEN <<>>
    ELSE LET m == CHOOSE x \in S : \A y \in S : x <= y
         IN  <<m>> \o Ordered(S \ {m})

\* ioutil.ReadDir: the entries of a directory, sorted
Listing(d) == Ordered({n \in Nodes : src[n].parent = d})

\* the ContentItem readDir makes for a directory
DirItem(name, fullPath) ==
    [Filename |-> name, FullPath |-> fullPath, Url |-> <<>>, Type |-> TypeDirectory,
     Content |-> NoContent, Children |-> <<>>, Metadata |-> ZeroMetadata,
     Extra |-> "nil"]

ContentFileItem(filename, fullPath, parsed) ==
    [Filename |-> OutName(filename), FullPath |-> fullPath, Url |-> <<>>,
     Type |-> TypeContent, Content |-> parsed.Content, Children |-> <<>>,
     Metadata |-> parsed.Metadata, Extra |-> "nil"]

AssetItem(filename, fullPath) ==
    [Filename |-> filename, FullPath |-> fullPath, Url |-> <<>>, Type |-> TypeAsset,
     Content |-> NoContent, Children |-> <<>>, Metadata |-> ZeroMetadata,
     Extra |-> "nil"]

\* (a slip the claims must catch: the child put in front of the others)
PrependChild(its, parent, child) ==
    [its EXCEPT ![parent].Children = <<child>> \o @]

\* c.Children = append(c.Children, child)
AppendChild(its, parent, child) ==
    [its EXCEPT ![parent].Children = Append(@, child)]

-----------------------------------------------------------------------------
(* Start: the crawl *)

\* crawlContent: readDir(".", "content") reads the listing of the root
ReadDirRoot ==
    /\ pc = "start"
    /\ IF src[Root].readable
       THEN /\ items' = (Root :> DirItem(NameDot, <<DirContent, NameDot>>))
            /\ frames' = <<[dir |-> Root, rest |-> Listing(Root)]>>
            /\ pc' = "crawl"
       ELSE /\ pc' = "fatal"
            /\ UNCHANGED <<items, frames>>
    /\ UNCHANGED <<src, processor, parseError, processError, generateError>>
    /\ UNCHANGED <<calls, splitVars, copyVars, todo, writeVars>>

\* the entry readDir is at, and the directory it belongs to
CurDir == frames[1].dir
CurEntry == frames[1].rest[1]
AtEntry == pc = "crawl" /\ frames # <<>> /\ frames[1].rest # <<>>
EntryPath(e) == Append(items[CurDir].FullPath, src[e].name)
Advance == [frames EXCEPT ![1].rest = Tail(@)]

\* ContentItem.Parse: a failure of parseContent goes into parseError
Parse(e, parsed) == IF parsed.err # "nil" THEN Error(e, parsed.err) ELSE parseError

\* an entry named *.html or *.md: a Content item, parsed at once
CrawlContentFile ==
    /\ AtEntry
    /\ isContentFile(src[CurEntry].name)
    /\ LET e == CurEntry
           file == IF src[e].isDir THEN NoFile
                   ELSE [readable |-> src[e].readable, data |-> src[e].data]
           parsed == parseContent(src[e].name, file)
       IN  IF parsed.outcome = "panic"
           THEN /\ pc' = "panic"
                /\ UNCHANGED <<items, frames, parseError>>
           ELSE /\ items' = AppendChild(
                        items @@ (e :> ContentFileItem(src[e].name, EntryPath(e), parsed)),
                        CurDir, e)
                /\ parseError' = Parse(e, parsed)
                /\ frames' = Advance
                /\ pc' = pc
    /\ UNCHANGED <<src, processor, processError, generateError>>
    /\ UNCHANGED <<calls, splitVars, copyVars, todo, writeVars>>

\* a directory: readDir recurses; a listing that cannot be read ends the crawl
CrawlDirectory ==
    /\ AtEntry
    /\ ~isContentFile(src[CurEntry].name)
    /\ src[CurEntry].isDir
    /\ LET e == CurEntry IN
       IF src[e].readable
       THEN /\ items' = items @@ (e :> DirItem(src[e].name, EntryPath(e)))
            /\ frames' = <<[dir |-> e, rest |-> Listing(e)]>> \o frames
            /\ pc' = pc
       ELSE /\ pc' = "fatal"
            /\ UNCHANGED <<items, frames>>
    /\ UNCHANGED <<src, processor, parseError, processError, generateError>>
    /\ UNCHANGED <<calls, splitVars, copyVars, todo, writeVars>>

\* anything else: an Asset
CrawlAsset ==
    /\ AtEntry
    /\ ~isContentFile(src[CurEntry].name)
    /\ ~src[CurEntry].isDir
    /\ LET e == CurEntry IN
       /\ items' = AppendChild(items @@ (e :> AssetItem(src[e].name, EntryPath(e))),
                               CurDir, e)
       /\ frames' = Advance
    /\ UNCHANGED <<src, processor, pc, parseError, processError, generateError>>
    /\ UNCHANGED <<calls, splitVars, copyVars, todo, writeVars>>

\* readDir returns its item: the caller appends it and goes on, or the crawl ends
CrawlReturn ==
    /\ pc = "crawl" /\ frames # <<>> /\ frames[1].rest = <<>>
    /\ IF Len(frames) = 1
       THEN /\ frames' = <<>>
            /\ pc' = "parsing"
            /\ UNCHANGED items
       ELSE /\ items' = AppendChild(items, frames[2].dir, frames[1].dir)
            /\ frames' = [Tail(frames) EXCEPT ![1].rest = Tail(@)]
            /\ pc' = pc
    /\ UNCHANGED <<src, processor, parseError, processError, generateError>>
    /\ UNCHANGED <<calls, splitVars, copyVars, todo, writeVars>>

\* (a slip the claims must catch: Start goes on whatever parseError holds)
CheckParseErrorIgnored ==
    /\ pc = "parsing"
    /\ pc' = IF processor.set THEN "processing" ELSE "generating"
    /\ todo' = IF processor.set THEN <<Root>> ELSE todo
    /\ UNCHANGED <<src, processor, frames, items, parseError, processError, generateError>>
    /\ UNCHANGED <<calls, splitVars, copyVars, writeVars>>

\* Start looks at parseError once the crawl has returned
CheckParseError ==
    /\ pc = "parsing"
    /\ pc' = IF parseError # NoError THEN "fatal"
             ELSE IF processor.set THEN "processing" ELSE "generating"
    /\ todo' = IF parseError = NoError /\ processor.set THEN <<Root>> ELSE todo
    /\ UNCHANGED <<src, processor, frames, items, parseError, processError, generateError>>
    /\ UNCHANGED <<calls, splitVars, copyVars, writeVars>>

-----------------------------------------------------------------------------
(* Start: the Process pass *)

RECURSIVE JoinPath(_)
\* a path as one string: its names with "/" between them
JoinPath(path) ==
    IF Len(path) = 1 THEN path[1]
    ELSE path[1] \o <<"/">> \o JoinPath(Tail(path))

TrimPrefix(s, prefix) ==
    IF HasPrefix(s, prefix) THEN SubSeq(s, Len(prefix) + 1, Len(s)) ELSE s

TrimSuffix(s, suffix) ==
    IF HasSuffix(s, suffix) THEN SubSeq(s, 1, Len(s) - Len(suffix)) ELSE s

IndexHtml == <<"i", "n", "d", "e", "x">> \o ExtHtml

ContentDotPrefix == JoinPath(<<DirContent, NameDot>>)

UrlOf(fullPath) == TrimSuffix(TrimPrefix(JoinPath(fullPath), ContentDotPrefix), IndexHtml)

ErrProcessor == "processor failed"

\* ContentItem.Process on the next item: the Url, the processor (the call is
\* noted in calls), and on success the Extra and then the children; on
\* failure the call returns
ProcessItem ==
    /\ pc = "processing"
    /\ todo # <<>>
    /\ LET c == Head(todo)
           withUrl == [items EXCEPT ![c].Url = UrlOf(items[c].FullPath)]
       IN  IF c \in processor.fails
           THEN /\ processError' = Error(c, ErrProcessor)
                /\ items' = withUrl
                /\ todo' = Tail(todo)
           ELSE /\ items' = [withUrl EXCEPT ![c].Extra = "extra"]
                /\ todo' = items[c].Children \o Tail(todo)
                /\ UNCHANGED processError
    /\ calls' = Append(calls, Head(todo))
    /\ UNCHANGED <<src, processor, pc, frames, parseError, generateError>>
    /\ UNCHANGED <<splitVars, copyVars, writeVars>>

\* content.Process() has returned: Start looks at processError
CheckProcessError ==
    /\ pc = "processing"
    /\ todo = <<>>
    /\ pc' = IF processError # NoError THEN "fatal" ELSE "generating"
    /\ UNCHANGED <<src, processor, frames, items, parseError, processError, generateError,
                   todo>>
    /\ UNCHANGED <<calls, splitVars, copyVars, writeVars>>

-----------------------------------------------------------------------------
(* Start: the Write pass and the ContentQueue *)

\* os.MkdirAll("static", 0755), then NewContentQueue and content.Write
MkdirStatic ==
    /\ pc = "generating"
    /\ \E ok \in BOOLEAN :
         IF ok
         THEN /\ pc' = "write"
              /\ wtodo' = <<Root>>
              /\ queue' = <<>>
              /\ lock' = "free"
         ELSE /\ pc' = "fatal"
              /\ UNCHANGED <<wtodo, queue, lock>>
    /\ UNCHANGED <<src, processor, frames, items, parseError, processError, generateError,
                   todo>>
    /\ UNCHANGED <<unit, stores, result, finished, bar, outDirs, outFiles, completed>>
    /\ UNCHANGED <<calls, splitVars, copyVars>>

\* (a slip the claims must catch: directories are left out of the queue)
InsertFilesOnly(q, c) == IF items[c].Type = TypeDirectory THEN q ELSE Append(q, c)

\* ContentQueue.Insert: a new item with an empty channel, appended under the lock
Insert(q, c) == Append(q, c)

\* ContentItem.Write on the next item calls Insert: c.lock.Lock()
InsertLock ==
    /\ pc = "write"
    /\ wtodo # <<>>
    /\ lock = "free"
    /\ lock' = "Start"
    /\ UNCHANGED <<src, processor, pc, frames, items, parseError, processError,
                   generateError, todo>>
    /\ UNCHANGED <<wtodo, queue, unit, stores, result, finished, bar, outDirs, outFiles,
                   completed>>
    /\ UNCHANGED <<calls, splitVars, copyVars>>

\* ContentItem.Write on the next item, the lock taken: Insert appends it and
\* unlocks as it returns, the goroutine is started, and Write is called on
\* the children
WriteItem ==
    /\ pc = "write"
    /\ wtodo # <<>>
    /\ lock = "Start"
    /\ LET c == Head(wtodo) IN
       /\ queue' = Insert(queue, c)
       /\ lock' = "free"
       /\ unit' = [unit EXCEPT ![c] = "ready"]
       /\ wtodo' = items[c].Children \o Tail(wtodo)
    /\ UNCHANGED <<src, processor, pc, frames, items, parseError, processError,
                   generateError, todo>>
    /\ UNCHANGED <<stores, result, finished, bar, outDirs, outFiles, completed>>
    /\ UNCHANGED <<calls, splitVars, copyVars>>

\* content.Write has returned: queue.Wait starts the bar
WaitStart ==
    /\ pc = "write"
    /\ wtodo = <<>>
    /\ pc' = "wait"
    /\ finished' = 0
    /\ bar' = [total |-> Len(queue), current |-> 0, done |-> FALSE]
    /\ UNCHANGED <<src, processor, frames, items, parseError, processError, generateError,
                   todo>>
    /\ UNCHANGED <<wtodo, queue, lock, unit, stores, result, outDirs, outFiles, completed>>
    /\ UNCHANGED <<calls, splitVars, copyVars>>

RECURSIVE Ancestors(_)
\* the directories above a node, the root left out
Ancestors(c) ==
    IF c = Root \/ src[c].parent = Root THEN {}
    ELSE {src[c].parent} \cup Ancestors(src[c].parent)

\* the directory a node is written into exists: static/. does once Start has
\* made static, the others once a MkdirAll has made them
ParentDirExists(c) == c = Root \/ src[c].parent = Root \/ src[c].parent \in outDirs

ErrMkdir == "mkdir failed"
ErrRender == "render failed"
ErrCopy == "copy failed"

UnitError(c) ==
    Error(c, IF items[c].Type = TypeDirectory THEN ErrMkdir
             ELSE IF items[c].Type = TypeContent THEN ErrRender ELSE ErrCopy)

\* generateError = err in a failing goroutine starts: the stores under way
\* now run at the same time as this one
BeginStore(c) ==
    [d \in DOMAIN stores \cup {c} |->
        IF d = c THEN DOMAIN stores ELSE stores[d] \cup {c}]

\* what the store of a failing goroutine leaves in generateError.  No lock is
\* held: alone, the store leaves the unit's error; with other stores at the
\* same time (a data race on the two words of an interface value) it leaves
\* any mix of the words of the errors being stored
RecordGenerateError(c, together) ==
    {Error(n, UnitError(m).msg) : n \in {c} \cup together, m \in {c} \cup together}

\* what the goroutine of a node does to its channel when its work succeeded
Signal(c) == [result EXCEPT ![c] = 1]

\* The goroutine of a directory: os.MkdirAll makes it and the directories
\* above it, or fails
RunMkdir(c) ==
    /\ unit[c] = "ready"
    /\ items[c].Type = TypeDirectory
    /\ \E ok \in BOOLEAN :
         IF ok
         THEN /\ outDirs' = outDirs \cup {c} \cup Ancestors(c)
              /\ result' = Signal(c)
              /\ completed' = Append(completed, c)
              /\ unit' = [unit EXCEPT ![c] = "done"]
              /\ UNCHANGED stores
         ELSE /\ stores' = BeginStore(c)
              /\ unit' = [unit EXCEPT ![c] = "storing"]
              /\ UNCHANGED <<outDirs, result, completed>>
    /\ UNCHANGED <<src, processor, pc, frames, items, parseError, processError,
                   generateError, todo>>
    /\ UNCHANGED <<wtodo, queue, lock, finished, bar, outFiles>>
    /\ UNCHANGED <<calls, splitVars, copyVars>>

\* The goroutine of a Content item (WriteContent) or of an Asset (copyFile):
\* the file can be made only in a directory that exists, and the template or
\* the copy can fail besides
RunFile(c) ==
    /\ unit[c] = "ready"
    /\ items[c].Type # TypeDirectory
    /\ \E ok \in BOOLEAN :
         IF ok /\ ParentDirExists(c)
         THEN /\ outFiles' = outFiles \cup {c}
              /\ result' = Signal(c)
              /\ completed' = Append(completed, c)
              /\ unit' = [unit EXCEPT ![c] = "done"]
              /\ UNCHANGED stores
         ELSE /\ stores' = BeginStore(c)
              /\ unit' = [unit EXCEPT ![c] = "storing"]
              /\ UNCHANGED <<outFiles, result, completed>>
    /\ UNCHANGED <<src, processor, pc, frames, items, parseError, processError,
                   generateError, todo>>
    /\ UNCHANGED <<wtodo, queue, lock, finished, bar, outDirs>>
    /\ UNCHANGED <<calls, splitVars, copyVars>>

\* The store of a failing goroutine ends, and the goroutine returns without
\* sending on its channel
StoreGenerateError(c) ==
    /\ unit[c] = "storing"
    /\ generateError' \in RecordGenerateError(c, stores[c])
    /\ stores' = [d \in DOMAIN stores \ {c} |-> stores[d]]
    /\ unit' = [unit EXCEPT ![c] = "failed"]
    /\ UNCHANGED <<src, processor, pc, frames, items, parseError, processError, todo>>
    /\ UNCHANGED <<wtodo, queue, lock, result, finished, bar, outDirs, outFiles, completed>>
    /\ UNCHANGED <<calls, splitVars, copyVars>>

RunUnitOf(c) ==
    c \in DOMAIN unit /\ (RunMkdir(c) \/ RunFile(c) \/ StoreGenerateError(c))

RunUnit == \E c \in DOMAIN unit : RunUnitOf(c)

\* Wait: <-c.items[finished].Result, then finished++ and bar.Increment()
WaitReceive ==
    /\ pc = "wait"
    /\ finished < Len(queue)
    /\ result[queue[finished + 1]] > 0
    /\ result' = [result EXCEPT ![queue[finished + 1]] = @ - 1]
    /\ finished' = finished + 1
    /\ bar' = [bar EXCEPT !.current = @ + 1]
    /\ UNCHANGED <<src, processor, pc, frames, items, parseError, processError,
                   generateError, todo>>
    /\ UNCHANGED <<wtodo, queue, lock, unit, stores, outDirs, outFiles, completed>>
    /\ UNCHANGED <<calls, splitVars, copyVars>>

\* Wait: the loop ends, bar.Finish(), and Wait returns
WaitReturn ==
    /\ pc = "wait"
    /\ ~(finished < Len(queue))
    /\ bar' = [bar EXCEPT !.done = TRUE]
    /\ pc' = "inspect"
    /\ UNCHANGED <<src, processor, frames, items, parseError, processError, generateError,
                   todo>>
    /\ UNCHANGED <<wtodo, queue, lock, unit, stores, result, finished, outDirs, outFiles,
                   completed>>
    /\ UNCHANGED <<calls, splitVars, copyVars>>

\* Start looks at generateError once Wait has returned
CheckGenerateError ==
    /\ pc = "inspect"
    /\ pc' = IF generateError # NoError THEN "fatal" ELSE "done"
    /\ UNCHANGED <<src, processor, frames, items, parseError, processError, generateError,
                   todo>>
    /\ UNCHANGED writeVars
    /\ UNCHANGED <<calls, splitVars, copyVars>>

-----------------------------------------------------------------------------
(* The source trees the specifications start from *)

NoCall == [src |-> "", dst |-> "", err |-> "nil", how |-> "none"]

CopyIdle ==
    /\ fsys = [link |-> [p \in Paths |-> NoInode], inode |-> [i \in Inodes |-> FreeInode]]
    /\ canLink = FALSE
    /\ writable = FALSE
    /\ last = NoCall
    /\ tick = FALSE
    /\ seen = {}


NameSub == <<"s", "u", "b">>
NameAsset == <<"l", "o", "g", "o", ".", "p", "n", "g">>
NameHtml == <<"a", "b", "o", "u", "t", ".", "h", "t", "m", "l">>
NameMd == <<"p", "o", "s", "t", ".", "m", "d">>
NameDirMd == <<"v", "1", ".", "m", "d">>

Entry(name, isDir, readable, data) ==
    [name |-> name, isDir |-> isDir, readable |-> readable, data |-> data, parent |-> 0]

TextBody == <<"text">>
PlainDoc == TextBody
UnterminatedDoc == startDelim \o <<KeyTitle, "Hello">> \o <<"\n", "-", "-", "-", "\n">> \o TextBody

\* the entries of the trees of Spec: a directory, one that cannot be listed,
\* an asset, a page, a post without the end of its front matter, a file that
\* cannot be read, a directory named like a content file
SampleEntries ==
    { Entry(NameSub, TRUE, TRUE, <<>>),
      Entry(NameSub, TRUE, FALSE, <<>>),
      Entry(NameAsset, FALSE, TRUE, TextBody),
      Entry(NameHtml, FALSE, TRUE, PlainDoc),
      Entry(NameMd, FALSE, TRUE, UnterminatedDoc),
      Entry(NameMd, FALSE, FALSE, <<>>),
      Entry(NameDirMd, TRUE, TRUE, <<>>) }

RootEntries == { Entry(NameDot, TRUE, TRUE, <<>>), Entry(NameDot, TRUE, FALSE, <<>>) }

\* an entry can be put in a directory that readDir lists as one
HoldsEntries(e) == e.isDir /\ ~isContentFile(e.name)

\* the trees of at most max entries, every entry but the root in a directory
\* before it
Trees(entries, max) ==
    UNION { { t \in [1..n -> entries \cup RootEntries] :
                /\ t[1] \in RootEntries
                /\ \A i \in 2..n : t[i] \in entries } : n \in 1..max }

Placed(t) ==
    { [i \in DOMAIN t |-> [t[i] EXCEPT !.parent = par[i]]] :
        par \in { f \in [DOMAIN t -> 0..Len(t)] :
                    /\ f[1] = 0
                    /\ \A i \in 2..Len(t) :
                         f[i] \in 1..(i - 1) /\ HoldsEntries(t[f[i]]) } }

SourceTrees(entries, max) == UNION { Placed(t) : t \in Trees(entries, max) }

Processors(nodes) ==
    {[set |-> FALSE, fails |-> {}]} \cup {[set |-> TRUE, fails |-> F] : F \in SUBSET nodes}

StartIdle ==
    /\ src = <<>>
    /\ processor = [set |-> FALSE, fails |-> {}]
    /\ pc = "idle"
    /\ frames = <<>>
    /\ items = <<>>
    /\ parseError = NoError
    /\ processError = NoError
    /\ generateError = NoError
    /\ todo = <<>>
    /\ calls = <<>>
    /\ wtodo = <<>>
    /\ queue = <<>>
    /\ lock = "free"
    /\ unit = [n \in DOMAIN src |-> "none"]
    /\ stores = <<>>
    /\ result = [n \in DOMAIN src |-> 0]
    /\ finished = 0
    /\ bar = [total |-> 0, current |-> 0, done |-> FALSE]
    /\ outDirs = {}
    /\ outFiles = {}
    /\ completed = <<>>

StartInit(entries, max) ==
    /\ src \in SourceTrees(entries, max)
    /\ processor \in Processors(DOMAIN src)
    /\ pc = "start"
    /\ frames = <<>>
    /\ items = <<>>
    /\ parseError = NoError
    /\ processError = NoError
    /\ generateError = NoError
    /\ todo = <<>>
    /\ calls = <<>>
    /\ wtodo = <<>>
    /\ queue = <<>>
    /\ lock = "free"
    /\ unit = [n \in DOMAIN src |-> "none"]
    /\ stores = <<>>
    /\ result = [n \in DOMAIN src |-> 0]
    /\ finished = 0
    /\ bar = [total |-> 0, current |-> 0, done |-> FALSE]
    /\ outDirs = {}
    /\ outFiles = {}
    /\ completed = <<>>

SplitIdle ==
    /\ doc = <<>>
    /\ ntok = 0
    /\ res = [outcome |-> "none", frontMatter |-> NilBytes, body |-> NilBytes,
              err |-> "nil"]

Init == StartInit(SampleEntries, MaxNodes) /\ SplitIdle /\ CopyIdle

Crawl == ReadDirRoot \/ CrawlContentFile \/ CrawlDirectory \/ CrawlAsset \/ CrawlReturn

Process == ProcessItem \/ CheckProcessError

Write ==
    MkdirStatic \/ InsertLock \/ WriteItem \/ WaitStart \/ RunUnit \/ WaitReceive \/ WaitReturn

Next == Crawl \/ CheckParseError \/ Process \/ Write \/ CheckGenerateError

Spec == Init /\ [][Next]_vars

\* The Go scheduler runs every goroutine that can run: Start's own steps and
\* each unit's are weakly fair.
StartSteps == Crawl \/ CheckParseError \/ Process \/ MkdirStatic \/ InsertLock \/ WriteItem
                \/ WaitStart \/ WaitReceive \/ WaitReturn \/ CheckGenerateError

FairSpec ==
    /\ Spec
    /\ WF_vars(StartSteps)
    /\ \A c \in 1..MaxNodes : WF_vars(RunUnitOf(c))

-----------------------------------------------------------------------------
(* The claims about the Write pass and the failure slots *)

WaitReturned == bar.done

NumFiles == Cardinality({c \in DOMAIN items : items[c].Type \in {TypeContent, TypeAsset}})

NumItems == Cardinality(DOMAIN items)

C2_WaitReturns == (pc = "wait") ~> (pc = "inspect")

DirCreated(d) == d = Root \/ d \in outDirs

\* C3: when the unit of a child starts, the output directory of its parent
\* has been created.
C3_DirectoryBeforeChild ==
    [][\A c \in DOMAIN unit :
          (c # Root /\ unit[c] = "ready" /\ unit'[c] # "ready") =>
              DirCreated(src[c].parent)]_vars

\* C4: a failure slot that holds a failure keeps it.
C4_FirstFailureKept ==
    [][/\ parseError # NoError => parseError' = parseError
       /\ processError # NoError => processError' = processError
       /\ generateError # NoError => generateError' = generateError]_vars

-----------------------------------------------------------------------------
(* The claims about the tree the crawl returns *)

\* crawlContent has returned a tree: the outermost readDir is over and made
\* the root
TreeReturned == frames = <<>> /\ Root \in DOMAIN items

\* the kind the listing rule gives an entry
KindOfEntry(e) ==
    IF HasSuffix(e.name, ExtHtml) \/ HasSuffix(e.name, ExtMd) THEN TypeContent
    ELSE IF e.isDir THEN TypeDirectory
    ELSE TypeAsset

\* the entries of a source directory, in the order of the listing
EntriesOf(d) == Ordered({n \in DOMAIN src : src[n].parent = d})

\* C11: once the crawl has returned a tree, the children of every Directory
\* node are the entries of its source directory, each once and in the order
\* of the listing, entries whose parse failed included; a child is Content
\* iff the name of its entry ends in .html or .md, else Directory if the
\* entry is a directory, else Asset.
C11_ChildrenMirrorListing ==
    TreeReturned =>
        \A d \in DOMAIN items :
            items[d].Type = TypeDirectory =>
                /\ items[d].Children = EntriesOf(d)
                /\ \A i \in 1..Len(items[d].Children) :
                      LET c == items[d].Children[i] IN
                      /\ c \in DOMAIN items
                      /\ items[c].Type = KindOfEntry(src[c])
                      /\ items[c].FullPath = Append(items[d].FullPath, src[c].name)

\* a tree whose root holds two entries: a content file whose parse failed,
\* then something that is no content file
C11_Witness ==
    /\ TreeReturned
    /\ Len(items[Root].Children) = 2
    /\ parseError # NoError
    /\ parseError.node = items[Root].Children[1]
    /\ items[items[Root].Children[2]].Type # TypeContent


-----------------------------------------------------------------------------
(* The claims about the Process pass *)

RECURSIVE PreOrderAll(_)
\* the nodes of the subtrees of a list of nodes, each node before its children
\* and the subtrees in the order of the list
PreOrderAll(cs) ==
    IF cs = <<>> THEN <<>>
    ELSE <<Head(cs)>> \o PreOrderAll(items[Head(cs)].Children) \o PreOrderAll(Tail(cs))

\* content.Process() was called and has returned
ProcessReturned ==
    /\ processor.set
    /\ TreeReturned
    /\ parseError = NoError
    /\ pc \notin {"start", "crawl", "parsing"}
    /\ todo = <<>>

\* C12: with a Processor registered, once Process has returned the processor
\* has been invoked exactly once on every node of the tree, in pre-order,
\* whether or not it returned an error for some node.
C12_ProcessVisitsEveryNode ==
    ProcessReturned => calls = PreOrderAll(<<Root>>)

-----------------------------------------------------------------------------
(* The claims about the shared state of the Write pass *)

\* the units whose store into generateError is under way
Storing(u) == {c \in DOMAIN u : u[c] = "storing"}

\* Insert appends to the registry of the queue in this step
AppendsToRegistry == queue' # queue /\ pc = "write"

\* Wait reads the registry in this step: len(c.items) as it starts, as it
\* loops and as it leaves the loop, c.items[finished] as it receives
WaitReadsRegistry ==
    \/ pc = "write" /\ pc' = "wait"
    \/ pc = "wait" /\ finished' # finished
    \/ pc = "wait" /\ pc' = "inspect"

\* Start reads generateError in this step
StartReadsGenerateError == pc = "inspect" /\ pc' # pc

\* C13: in the Write pass no two units store into generateError at the same
\* time, no unit stores into it while Start reads it, and the registry of
\* the queue is appended to (Insert) and read (Wait) only with the lock of
\* the queue held.
C13_SharedStateExclusive ==
    [][/\ Cardinality(Storing(unit')) <= 1
       /\ StartReadsGenerateError => Storing(unit) = {}
       /\ AppendsToRegistry => lock = "Start"
       /\ WaitReadsRegistry => lock = "Start"]_vars

-----------------------------------------------------------------------------
(* The claim about the progress bar *)

\* C14: while Wait blocks, the bar follows the completions, not the order of
\* submission: once k units have signalled completion the bar shows k in the
\* end, even with a unit registered earlier still unfinished, and the bar
\* never shows more than the number of units that have completed.
C14_ProgressFollowsCompletion ==
    /\ [](bar.current <= Len(completed))
    /\ \A k \in 1..MaxNodes :
          (pc = "wait" /\ Len(completed) >= k) ~> (bar.current >= k)

-----------------------------------------------------------------------------
(* The claim about the order of the phases *)

\* what must be behind Start before anything is written
PhasesPassed ==
    /\ TreeReturned
    /\ parseError = NoError
    /\ processor.set =>
          /\ processError = NoError
          /\ calls = PreOrderAll(<<Root>>)
          /\ todo = <<>>

\* the output root is being made, or the goroutine of a node is started or
\* runs, in this step
WriteStep ==
    \/ pc = "generating" /\ pc' # pc
    \/ \E c \in DOMAIN unit : unit'[c] # unit[c]
    \/ outDirs' # outDirs
    \/ outFiles' # outFiles

\* the processor is invoked, or the Url or the Extra of a node is written, in
\* this step
ProcessStep ==
    \/ calls' # calls
    \/ \E c \in DOMAIN items :
          items'[c].Url # items[c].Url \/ items'[c].Extra # items[c].Extra

WriteBegun ==
    \/ pc \in {"write", "wait", "inspect", "done"}
    \/ \E c \in DOMAIN unit : unit[c] # "none"

\* C15: the output root is made and a write unit starts only after the crawl
\* has returned a tree with parseError empty and, with a Processor
\* registered, after Process has visited the tree with processError empty;
\* and every invocation of the Processor, and every write of a node's Url or
\* Extra, comes before the first write unit starts.
C15_PhasesOrdered ==
    [][/\ WriteStep => PhasesPassed
       /\ WriteBegun' => PhasesPassed'
       /\ ProcessStep => (~WriteBegun /\ ~WriteBegun' /\ pc = "processing")]_vars

\* a run with a Processor over a tree of three nodes, all written
C15_Witness ==
    /\ pc = "done"
    /\ processor.set
    /\ Len(calls) = 3
    /\ \A c \in DOMAIN items : items[c].Extra = "extra" /\ unit[c] = "done"

-----------------------------------------------------------------------------
(* CrawlSpec: the crawl and Start's look at parseError, over content files  *)
(* with every kind of front matter                                          *)

Absent == "absent"
BadTimestamp == "2014-05-01"

TitleValues == {Absent, "Hello"}
TemplateValues == {Absent, "post"}
DateValues == {Absent, GoodTimestamp, BadTimestamp}

MetaLine(key, value) == IF value = Absent THEN <<>> ELSE <<<<key, value>>>>

RECURSIVE JoinLines(_)
JoinLines(lines) ==
    IF lines = <<>> THEN <<>>
    ELSE IF Len(lines) = 1 THEN lines[1]
    ELSE lines[1] \o <<"\n">> \o JoinLines(Tail(lines))

\* a document with a front matter of the given title, template and date
MetaDoc(title, template, date) ==
    startDelim
    \o JoinLines(MetaLine(KeyTitle, title) \o MetaLine(KeyTemplate, template)
                 \o MetaLine(KeyDate, date) \o <<<<KeyOther, "me">>>>)
    \o endDelim \o TextBody

MetaDocs ==
    {MetaDoc(ti, te, d) : ti \in TitleValues, te \in TemplateValues, d \in DateValues}

\* a front matter with nothing in it, and one that is no mapping
EmptyHeaderDoc == startDelim \o <<"-", "-", "-", "\n", "\n">> \o TextBody
BlankHeaderDoc == startDelim \o endDelim \o TextBody
ProseHeaderDoc == startDelim \o <<"text">> \o endDelim \o TextBody

CrawlEntries ==
    { Entry(NameMd, FALSE, TRUE, d) :
        d \in MetaDocs \cup {EmptyHeaderDoc, BlankHeaderDoc, ProseHeaderDoc, PlainDoc,
                             UnterminatedDoc} }
    \cup { Entry(NameSub, TRUE, TRUE, <<>>), Entry(NameAsset, FALSE, TRUE, TextBody),
           Entry(NameMd, FALSE, FALSE, <<>>), Entry(NameSub, TRUE, FALSE, <<>>) }

CrawlInit ==
    /\ StartInit(CrawlEntries, MaxNodes)
    /\ ~processor.set
    /\ SplitIdle
    /\ CopyIdle

CrawlNext == Crawl \/ CheckParseError

CrawlSpec == CrawlInit /\ [][CrawlNext]_vars

CrawlReturnedTree == pc \in {"parsing", "processing", "generating"}

Given(value, default) == IF value = Absent THEN default ELSE value

\* C8: a front matter without a date decodes without error; the date stays
\* unset, the title and the template are the ones given (the title empty and
\* the template the default when absent).
C8_NoDateDecodes ==
    \A c \in DOMAIN items : \A ti \in TitleValues, te \in TemplateValues :
        (items[c].Type = TypeContent /\ src[c].readable /\ ~src[c].isDir
            /\ src[c].data = MetaDoc(ti, te, Absent)) =>
            /\ yamlUnmarshal(splitContent(src[c].data).frontMatter.bytes,
                             ZeroMetadata).err = "nil"
            /\ items[c].Metadata.Date = ZeroTime
            /\ items[c].Metadata.Title = Given(ti, "")
            /\ items[c].Metadata.Template = Given(te, DefaultTemplate)

\* C9: a content file whose date does not parse leaves parseError set once
\* the crawl has returned.
C9_BadDateRecorded ==
    (/\ CrawlReturnedTree
     /\ \E c \in DOMAIN items : \E ti \in TitleValues, te \in TemplateValues :
          /\ items[c].Type = TypeContent /\ src[c].readable /\ ~src[c].isDir
          /\ src[c].data = MetaDoc(ti, te, BadTimestamp))
    => parseError # NoError

-----------------------------------------------------------------------------
(* CopySpec: calls of copyFile, and files replaced in between *)

\* the file systems a run starts from: each path absent, a file, or a
\* directory; b may be a hard link to the file a
InitialFileSystems ==
    { [link |-> l, inode |-> t] :
        l \in { f \in [Paths -> {NoInode, 1, 2}] : f["a"] \in {NoInode, 1} },
        t \in [Inodes -> { FreeInode, [kind |-> Dir, data |-> ""],
                           [kind |-> Regular, data |-> "x"],
                           [kind |-> Regular, data |-> "y"] }] }

WellFormed(fs) ==
    /\ \A i \in Inodes : (fs.inode[i] = FreeInode) <=> (\A p \in Paths : fs.link[p] # i)
    /\ \A i \in Inodes :
         fs.inode[i].kind = Dir => Cardinality({p \in Paths : fs.link[p] = i}) <= 1

\* an inode no path names is given back
Collect(fs) ==
    [fs EXCEPT !.inode = [i \in Inodes |->
        IF \A p \in Paths : fs.link[p] # i THEN FreeInode ELSE fs.inode[i]]]

CopyInit ==
    /\ fsys \in {fs \in InitialFileSystems : WellFormed(fs)}
    /\ canLink \in BOOLEAN
    /\ writable \in BOOLEAN
    /\ last = NoCall
    /\ tick = FALSE
    /\ seen = {}
    /\ SplitIdle
    /\ StartIdle

CallCopyFile ==
    /\ \E s \in Paths, d \in Paths :
         LET r == copyFile(fsys, s, d, canLink, writable) IN
         /\ fsys' = r.fs
         /\ last' = [src |-> s, dst |-> d, err |-> r.err, how |-> r.how]
         /\ seen' = IF last.err = "nil" /\ last.src = s /\ last.dst = d /\ r.err = "nil"
                         /\ last.how \in {"link", "copy"}
                    THEN seen \cup {last.how} ELSE seen
    /\ tick' = ~tick
    /\ UNCHANGED <<canLink, writable>>
    /\ UNCHANGED <<splitVars, crawlVars>>

\* outside copyFile: a path is given a new file (as an editor's save does)
ReplaceFile ==
    /\ \E p \in Paths, v \in {"x", "y"} :
         /\ Stat(fsys, p).kind # Dir
         /\ LET i == UnusedInode(fsys) IN
            fsys' = Collect([link |-> [fsys.link EXCEPT ![p] = i],
                             inode |-> [fsys.inode EXCEPT ![i] =
                                            [kind |-> Regular, data |-> v]]])
    /\ last' = NoCall
    /\ UNCHANGED <<canLink, writable, tick, seen>>
    /\ UNCHANGED <<splitVars, crawlVars>>

CopyNext == CallCopyFile \/ ReplaceFile

CopySpec == CopyInit /\ [][CopyNext]_vars

DataAt(fs, p) == IF fs.link[p] = NoInode THEN "" ELSE fs.inode[fs.link[p]].data

\* C10: a call of copyFile(src, dst) that follows a successful call with the
\* same arguments succeeds and leaves the content of src and of dst as it
\* was; after a hard link (or an identical file) it does nothing at all,
\* after a byte copy it copies again.
C10_CopyIdempotent ==
    [][(tick' # tick /\ last # NoCall /\ last.err = "nil"
            /\ last'.src = last.src /\ last'.dst = last.dst) =>
          /\ last'.err = "nil"
          /\ DataAt(fsys', last.src) = DataAt(fsys, last.src)
          /\ DataAt(fsys', last.dst) = DataAt(fsys, last.dst)
          /\ last.how \in {"link", "same"} => (last'.how = "same" /\ fsys' = fsys)
          /\ last.how = "copy" => last'.how = "copy"]_vars

C10_Witness == seen = {"link", "copy"} /\ last.err = "nil" /\ last.how = "copy"

-----------------------------------------------------------------------------
(* SplitSpec: a document is put together piece by piece, then split *)

NoResult == [outcome |-> "none", frontMatter |-> NilBytes, body |-> NilBytes,
             err |-> "nil"]

SplitTokens == {startDelim, endDelim, <<"-">>, <<"\n">>, <<"text">>}

SplitInit ==
    /\ doc = <<>>
    /\ ntok = 0
    /\ res = NoResult
    /\ StartIdle
    /\ CopyIdle

AppendToken ==
    /\ res = NoResult
    /\ ntok < MaxTokens
    /\ \E t \in SplitTokens : doc' = doc \o t
    /\ ntok' = ntok + 1
    /\ UNCHANGED res
    /\ UNCHANGED <<crawlVars, copyVars>>

CallSplitContent ==
    /\ res = NoResult
    /\ res' = splitContent(doc)
    /\ UNCHANGED <<doc, ntok>>
    /\ UNCHANGED <<crawlVars, copyVars>>

SplitNext == AppendToken \/ CallSplitContent

SplitSpec == SplitInit /\ [][SplitNext]_vars

-----------------------------------------------------------------------------
(* What the claims about splitContent say, stated on the bytes alone *)

BeginsWithOpening(d) ==
    /\ Len(d) >= 4
    /\ d[1] = "-" /\ d[2] = "-" /\ d[3] = "-" /\ d[4] = "\n"

TerminatorAt(d, i) ==
    /\ i >= 1 /\ i + 5 <= Len(d)
    /\ d[i] = "\n" /\ d[i+1] = "-" /\ d[i+2] = "-" /\ d[i+3] = "-"
    /\ d[i+4] = "\n" /\ d[i+5] = "\n"

ContainsTerminator(d) == \E i \in 1..Len(d) : TerminatorAt(d, i)

Rest(d) == SubSeq(d, 5, Len(d))

Called == res # NoResult

\* C5: an input that begins with the opening delimiter and contains the
\* terminator is split without error or crash, and opening delimiter +
\* metadata + terminator + body is the input.
C5_WellFormedSplit ==
    (Called /\ BeginsWithOpening(doc) /\ ContainsTerminator(doc)) =>
        /\ res.outcome = "return"
        /\ res.err = "nil"
        /\ startDelim \o res.frontMatter.bytes \o endDelim \o res.body.bytes = doc

\* C6: an input that does not begin with the opening delimiter is returned
\* whole as the body, with empty metadata and no error.
C6_NoDelimiterPassThrough ==
    (Called /\ ~BeginsWithOpening(doc)) =>
        /\ res.outcome = "return"
        /\ res.err = "nil"
        /\ res.frontMatter.bytes = <<>>
        /\ res.body = Bytes(doc)

C6_Witness ==
    /\ Called
    /\ ~BeginsWithOpening(doc)
    /\ ContainsTerminator(doc)
    /\ \E i \in 1..Len(doc) : BeginsWithOpening(SubSeq(doc, i, Len(doc)))
    /\ res.body = Bytes(doc)

\* C7: an input that begins with the opening delimiter and has no terminator
\* in the bytes after it fails with the missing-terminator error and returns
\* neither metadata nor body.
C7_MissingTerminatorError ==
    (Called /\ BeginsWithOpening(doc) /\ ~ContainsTerminator(Rest(doc))) =>
        /\ res.outcome = "return"
        /\ res.err = ErrNoEndDelim
        /\ res.frontMatter = NilBytes
        /\ res.body = NilBytes

====
